---- MODULE Spec2Model ----
(***************************************************************************)
(* State-machine model of the encoder session controller of               *)
(* src/disp/dispd-encoder.c: one struct dispd_encoder, the event loop     *)
(* sources and the bus match slots that carry it as callback context, the *)
(* worker process, and the callers that hold references to it.            *)
(*                                                                         *)
(* Every event-loop callback and every public call is one action.  The    *)
(* body of a callback is computed by operators named after the C          *)
(* functions; they thread a record m (the "machine") through the          *)
(* statements of the function in program order.                           *)
(***************************************************************************)
EXTENDS Integers, Sequences, FiniteSets, TLC

\* ----- bounds of the model ------------------------------------------------
MaxTimers == 2      \* timer event sources the loop can hold at once
MaxOwners == 2      \* references callers hold at once
MaxEntries == 2     \* entries of one PropertiesChanged dictionary
MaxCode == 6        \* largest state code a notification carries
MaxRef == 6         \* stop() is not called once e->ref has grown to this
MaxPort == 2        \* largest port number a session carries

\* pid fork() returned for the worker
WorkerPid == 1

VARIABLES
    e,        \* struct dispd_encoder (fields keep their last value after free)
    heap,     \* "none" | "live" | "freed": the allocation behind e
    frees,    \* number of times free(e) has run
    loop,     \* sd_event sources registered with userdata e: child, pipe
    timers,   \* sd_event time sources with userdata e: "none"|"armed"|"fired"
    matches,  \* sd_bus match slots with userdata e: state_change, name_disappeared
    owners,   \* references held by callers of the public API
    out,      \* spawn stored the controller in *out and returned 0
    fds,      \* parent's pipe descriptors: rd (fds[0]), wr (fds[1]) open?
    child,    \* worker process: "none" | "running" | "exited" | "reaped"
    regsAtFree, \* sources and slots still registered when free(e) ran
    uaf,      \* a field of e was accessed after free(e)
    crashed,  \* the process died on such an access
    last      \* the call or callback that ran last, its inputs and its effects

vars == <<e, heap, frees, loop, timers, matches, owners, out, fds, child,
          regsAtFree, uaf, crashed, last>>

TimerIds == 1..MaxTimers

Codes == {-1} \cup (0..MaxCode)

\* calloc(1, sizeof(struct dispd_encoder)): every field zero
ZeroEncoder ==
    [ref |-> 0,
     child_source |-> FALSE,
     child_term_time_source |-> 0,
     pipe_source |-> FALSE,
     bus |-> FALSE,
     name_disappeared_slot |-> FALSE,
     state_change_notify_slot |-> FALSE,
     name |-> FALSE,
     state |-> "NULL",
     handler |-> FALSE]

NoInput == [rpc |-> "", time |-> "", msg |-> <<>>, step |-> "", session |-> <<>>]

B2N(b) == IF b THEN 1 ELSE 0

\* the registrations that carry e as userdata, as the loop and the bus see them
RegsOf(l, t, mt) ==
    [child |-> l.child, pipe |-> l.pipe,
     state_change |-> mt.state_change, name_disappeared |-> mt.name_disappeared,
     timers |-> Cardinality({i \in TimerIds : t[i] # "none"})]

RegCount(r) ==
    B2N(r.child) + B2N(r.pipe) + B2N(r.state_change) + B2N(r.name_disappeared)
        + r.timers

Regs == RegsOf(loop, timers, matches)

\* what a call or callback finds when it is entered
Pre ==
    [child_source |-> e.child_source, bus |-> e.bus, ref |-> e.ref,
     state |-> e.state, handler |-> e.handler, owners |-> owners,
     regs |-> Regs]

\* The machine a call or callback runs on: the state, the choices the
\* environment makes during it (obs: what the observer does, ub: what an
\* access to freed memory does, kr: what kill() returns) and its trace
\* (uaf: an access to freed memory during this run).
Cur(obs, ub, kr) ==
    [e |-> e, heap |-> heap, frees |-> frees, loop |-> loop, timers |-> timers,
     matches |-> matches, owners |-> owners, out |-> out, fds |-> fds,
     child |-> child,
     regsAtFree |-> regsAtFree, uaf |-> FALSE, crashed |-> crashed,
     obs |-> obs, ub |-> ub, kr |-> kr,
     kills |-> <<>>, tries |-> 0, notes |-> <<>>, reqs |-> <<>>, sent |-> <<>>,
     rc |-> 0]

Commit(m, op, in) ==
    /\ e' = m.e
    /\ heap' = m.heap
    /\ frees' = m.frees
    /\ loop' = m.loop
    /\ timers' = m.timers
    /\ matches' = m.matches
    /\ owners' = m.owners
    /\ out' = m.out
    /\ fds' = m.fds
    /\ child' = m.child
    /\ regsAtFree' = m.regsAtFree
    /\ uaf' = (uaf \/ m.uaf)
    /\ crashed' = m.crashed
    /\ last' = [op |-> op, in |-> in, pre |-> Pre, kills |-> m.kills,
                tries |-> m.tries, notes |-> m.notes, reqs |-> m.reqs,
                sent |-> m.sent, rc |-> m.rc, uaf |-> m.uaf]

\* A read or write of a field of e.  On freed memory it is undefined: the
\* build either sees the bytes the object last held or dies.
Access(m) ==
    IF m.crashed \/ m.heap = "live" THEN m
    ELSE [m EXCEPT !.uaf = TRUE, !.crashed = (m.ub = "crash")]

\* ----- reference counting --------------------------------------------------

\* mutant: the reference is handed out without being counted
dispd_encoder_ref_uncounted(m) == Access(m)

dispd_encoder_ref(m) ==
    LET t == Access(m) IN
    IF t.crashed THEN t
    ELSE IF ~(0 < t.e.ref) THEN t
    ELSE [t EXCEPT !.e.ref = @ + 1]

dispd_encoder_unref(m) ==
    LET t == Access(m) IN
    IF t.crashed THEN t
    ELSE IF ~(0 < t.e.ref) THEN t
    ELSE LET d == [t EXCEPT !.e.ref = @ - 1] IN
         IF d.e.ref # 0 THEN d
         ELSE [d EXCEPT !.heap = "freed", !.frees = @ + 1,
                        !.regsAtFree = RegCount(RegsOf(d.loop, d.timers, d.matches))]

\* ----- helpers of the callbacks -------------------------------------------

dispd_encoder_close_pipe(m) ==
    LET t == Access(m) IN
    IF t.crashed THEN t
    ELSE IF ~t.e.pipe_source THEN t
    ELSE dispd_encoder_unref([t EXCEPT !.fds.rd = FALSE,
                                       !.loop.pipe = FALSE,
                                       !.e.pipe_source = FALSE])

\* mutant: signals without testing for a child-exit watcher
dispd_encoder_kill_child_unguarded(m) ==
    LET t == Access(m) IN
    IF t.crashed THEN t
    ELSE [t EXCEPT !.tries = @ + 1,
                   !.kills = Append(@, [pid |-> WorkerPid, sig |-> "SIGTERM"]),
                   !.rc = IF t.kr < 0 THEN t.kr ELSE 1]

dispd_encoder_kill_child(m) ==
    LET t == Access(m) IN
    IF t.crashed THEN t
    ELSE IF ~t.e.child_source THEN [t EXCEPT !.tries = @ + 1, !.rc = 0]
    ELSE [t EXCEPT !.tries = @ + 1,
                   !.kills = Append(@, [pid |-> WorkerPid, sig |-> "SIGTERM"]),
                   !.rc = IF t.kr < 0 THEN t.kr ELSE 1]

\* (*e->handler)(e, state, e->userdata): the observer is the caller's code;
\* it may release a reference the caller holds.
Observer(m, state) ==
    LET c == [m EXCEPT !.notes = Append(@, [arg |-> state, seen |-> m.e.state])] IN
    IF c.obs = "release" /\ c.owners > 0
    THEN dispd_encoder_unref([c EXCEPT !.owners = @ - 1])
    ELSE c

dispd_encoder_notify_state_change(m, state) ==
    LET t == Access(m) IN
    IF t.crashed THEN t
    ELSE IF ~t.e.handler THEN t
    ELSE dispd_encoder_unref(Observer(dispd_encoder_ref(t), state))

\* mutant: no test for the state being the current one
dispd_encoder_set_state_unconditional(m, state) ==
    LET t == Access(m) IN
    IF t.crashed THEN t
    ELSE dispd_encoder_notify_state_change(
            [t EXCEPT !.reqs = Append(@, [from |-> t.e.state, to |-> state]),
                      !.e.state = state], state)

dispd_encoder_set_state(m, state) ==
    LET t == Access(m) IN
    IF t.crashed THEN t
    ELSE LET q == [t EXCEPT !.reqs = Append(@, [from |-> t.e.state, to |-> state])] IN
         IF q.e.state = state THEN q
         ELSE dispd_encoder_notify_state_change([q EXCEPT !.e.state = state], state)

CleanupChildSource(m) ==
    LET t == Access(m) IN
    IF t.crashed THEN t
    ELSE IF ~t.e.child_source THEN t
    ELSE dispd_encoder_unref([t EXCEPT !.loop.child = FALSE,
                                       !.e.child_source = FALSE])

CleanupTermTimeSource(m) ==
    LET t == Access(m) IN
    IF t.crashed THEN t
    ELSE IF t.e.child_term_time_source = 0 THEN t
    ELSE dispd_encoder_unref(
            [t EXCEPT !.timers[t.e.child_term_time_source] = "none",
                      !.e.child_term_time_source = 0])

CleanupNameDisappearedSlot(m) ==
    LET t == Access(m) IN
    IF t.crashed THEN t
    ELSE IF ~t.e.name_disappeared_slot THEN t
    ELSE dispd_encoder_unref([t EXCEPT !.matches.name_disappeared = FALSE,
                                       !.e.name_disappeared_slot = FALSE])

CleanupStateChangeSlot(m) ==
    LET t == Access(m) IN
    IF t.crashed THEN t
    ELSE IF ~t.e.state_change_notify_slot THEN t
    ELSE dispd_encoder_unref([t EXCEPT !.matches.state_change = FALSE,
                                       !.e.state_change_notify_slot = FALSE])

dispd_encoder_cleanup(m) ==
    CleanupStateChangeSlot(
     CleanupNameDisappearedSlot(
      dispd_encoder_close_pipe(
       CleanupChildSource(
        CleanupTermTimeSource(
         CleanupChildSource(m))))))

\* ----- event-loop callbacks -----------------------------------------------

on_child_terminated(m) ==
    LET c == dispd_encoder_cleanup(dispd_encoder_set_state(m, "TERMINATED")) IN
    IF c.crashed THEN c ELSE [c EXCEPT !.rc = 0]

\* switch(value) of on_encoder_properties_changed
StateOfCode(value) ==
    CASE value = 0 -> "NULL"
      [] value = 1 -> "CONFIGURED"
      [] value = 2 -> "READY"
      [] value = 3 -> "STARTED"
      [] value = 4 -> "PAUSED"
      [] value = 5 -> "TERMINATED"
      [] OTHER -> "unknown"

\* One dictionary entry of a PropertiesChanged signal: the property name, the
\* type of the variant ("i" int32 or another) and, for an int32, its value.
Entries ==
    [name : {"State"}, type : {"i"}, value : Codes]
        \cup [name : {"Other"}, type : {"i", "s"}, value : {0}]

RECURSIVE SeqsUpTo(_, _)
SeqsUpTo(S, n) ==
    IF n = 0 THEN {<<>>}
    ELSE LET shorter == SeqsUpTo(S, n - 1) IN
         shorter \cup {Append(q, x) : q \in shorter, x \in S}

\* every dictionary of up to MaxEntries entries
Messages == SeqsUpTo(Entries, MaxEntries)

\* the dictionaries that carry the State property alone
StateMessages == {<<en>> : en \in [name : {"State"}, type : {"i"}, value : Codes]}

\* the while loop over the a{sv} container; msg is what is left to read
RECURSIVE on_encoder_properties_changed(_, _)
on_encoder_properties_changed(m, msg) ==
    IF msg = <<>> THEN [m EXCEPT !.rc = 0]
    ELSE LET en == Head(msg) IN
         IF en.type # "i" THEN [m EXCEPT !.rc = -1]
         ELSE IF en.name # "State"
              THEN on_encoder_properties_changed(m, Tail(msg))
         ELSE IF StateOfCode(en.value) = "unknown" THEN [m EXCEPT !.rc = 0]
         ELSE LET c == dispd_encoder_set_state(m, StateOfCode(en.value)) IN
              IF c.crashed THEN c ELSE [c EXCEPT !.rc = 0]

\* mutant: tears down whether or not a child was signalled
on_encoder_disappeared_eager(m) ==
    LET k == dispd_encoder_kill_child(Access(m)) IN
    IF k.crashed THEN k
    ELSE IF 0 > k.rc THEN k
    ELSE LET c == dispd_encoder_cleanup(k) IN
         IF c.crashed THEN c ELSE [c EXCEPT !.rc = 0]

on_encoder_disappeared(m) ==
    LET k == dispd_encoder_kill_child(Access(m)) IN
    IF k.crashed THEN k
    ELSE IF 0 > k.rc THEN k
    ELSE IF k.rc # 0 THEN [k EXCEPT !.rc = 0]
    ELSE LET c == dispd_encoder_cleanup(k) IN
         IF c.crashed THEN c ELSE [c EXCEPT !.rc = 0]

ReadSteps ==
    {"eagain", "read_error", "eof", "strdup_fail", "bus_fail",
     "match_state_fail", "match_name_fail", "ok"}

\* mutant: the error path closes the pipe without signalling the worker
HandshakeError_no_kill(m) ==
    LET c == dispd_encoder_close_pipe(m) IN
    IF c.crashed THEN c ELSE [c EXCEPT !.rc = -1]

\* the error: label followed by end:
HandshakeError(m) ==
    LET c == dispd_encoder_close_pipe(dispd_encoder_kill_child(m)) IN
    IF c.crashed THEN c ELSE [c EXCEPT !.rc = -1]

\* sd_bus_add_match(..., &e->state_change_notify_slot, ..., dispd_encoder_ref(e))
AddStateChangeMatch(m, ok) ==
    LET r == dispd_encoder_ref(m) IN
    IF r.crashed \/ ~ok THEN r
    ELSE [r EXCEPT !.e.state_change_notify_slot = TRUE,
                   !.matches.state_change = TRUE]

\* sd_bus_add_match(..., &e->name_disappeared_slot, ..., dispd_encoder_ref(e))
AddNameDisappearedMatch(m, ok) ==
    LET r == dispd_encoder_ref(m) IN
    IF r.crashed \/ ~ok THEN r
    ELSE [r EXCEPT !.e.name_disappeared_slot = TRUE,
                   !.matches.name_disappeared = TRUE]

on_unique_readable(m, step) ==
    IF step = "eagain" THEN [m EXCEPT !.rc = 0]
    ELSE IF step \in {"read_error", "eof", "strdup_fail"} THEN HandshakeError(m)
    ELSE LET t == Access(m) IN
    IF t.crashed THEN t
    ELSE LET n == [t EXCEPT !.e.name = TRUE] IN
    IF step = "bus_fail" THEN HandshakeError(n)
    ELSE LET b == [n EXCEPT !.e.bus = TRUE] IN
    IF step = "match_state_fail"
    THEN HandshakeError(AddStateChangeMatch(b, FALSE))
    ELSE LET s == AddNameDisappearedMatch(AddStateChangeMatch(b, TRUE),
                                          step # "match_name_fail")
             c == dispd_encoder_close_pipe(dispd_encoder_set_state(s, "SPAWNED"))
         IN IF c.crashed THEN c
            ELSE [c EXCEPT !.rc = IF step = "match_name_fail" THEN -1 ELSE 0]

on_child_term_timeout(m, i) ==
    LET k == dispd_encoder_kill_child([m EXCEPT !.timers[i] = "fired"]) IN
    IF k.crashed THEN k ELSE [k EXCEPT !.rc = 0]

\* ----- public calls --------------------------------------------------------

RpcSteps == {"new_fail", "call_fail", "ok"}

TimeSteps == {"now_fail", "add_fail", "ok"}

\* mutant: a failed call returns the error without signalling the worker
dispd_encoder_call_no_kill(m, rpc) ==
    LET t == Access(m) IN
    IF t.crashed THEN t
    ELSE IF ~t.e.bus THEN [t EXCEPT !.rc = -1]
    ELSE [t EXCEPT !.rc = IF rpc # "ok" THEN -1 ELSE 0]

dispd_encoder_call(m, rpc) ==
    LET t == Access(m) IN
    IF t.crashed THEN t
    ELSE IF ~t.e.bus THEN [t EXCEPT !.rc = -1]
    ELSE IF rpc # "ok"
         THEN LET k == dispd_encoder_kill_child(t) IN
              IF k.crashed THEN k ELSE [k EXCEPT !.rc = -1]
    ELSE [t EXCEPT !.rc = 0]

dispd_encoder_start(m, rpc) == dispd_encoder_call(m, rpc)

dispd_encoder_pause(m, rpc) == dispd_encoder_call(m, rpc)

\* the timer id sd_event_add_time hands out
NewTimer(m) == CHOOSE i \in TimerIds :
                  /\ m.timers[i] = "none"
                  /\ \A j \in TimerIds : m.timers[j] = "none" => i <= j

\* mutant: returns right after arming the timer, without the final signal
dispd_encoder_stop_no_final_kill(m, rpc, time) ==
    LET c == dispd_encoder_call(m, rpc) IN
    IF c.crashed \/ 0 > c.rc THEN c
    ELSE IF time = "now_fail" THEN [c EXCEPT !.rc = -1]
    ELSE LET r == dispd_encoder_ref(c) IN
    IF r.crashed THEN r
    ELSE IF time = "add_fail" THEN [r EXCEPT !.rc = -1]
    ELSE [r EXCEPT !.timers[NewTimer(r)] = "armed",
                   !.e.child_term_time_source = NewTimer(r),
                   !.rc = 0]

\* mutant: goes on to arm the timer when the Stop call failed
dispd_encoder_stop_arms_after_failure(m, rpc, time) ==
    LET c == dispd_encoder_call(m, rpc) IN
    IF c.crashed \/ ~c.e.bus THEN c
    ELSE IF time = "now_fail"
         THEN LET k == dispd_encoder_kill_child(c) IN
              IF k.crashed THEN k ELSE [k EXCEPT !.rc = -1]
    ELSE LET r == dispd_encoder_ref(c) IN
    IF r.crashed THEN r
    ELSE IF time = "add_fail"
         THEN LET k == dispd_encoder_kill_child(r) IN
              IF k.crashed THEN k ELSE [k EXCEPT !.rc = -1]
    ELSE LET a == [r EXCEPT !.timers[NewTimer(r)] = "armed",
                            !.e.child_term_time_source = NewTimer(r)]
             k == dispd_encoder_kill_child(a)
         IN IF k.crashed THEN k ELSE [k EXCEPT !.rc = 0]

dispd_encoder_stop(m, rpc, time) ==
    LET c == dispd_encoder_call(m, rpc) IN
    IF c.crashed \/ 0 > c.rc THEN c
    ELSE IF time = "now_fail"
         THEN LET k == dispd_encoder_kill_child(c) IN
              IF k.crashed THEN k ELSE [k EXCEPT !.rc = -1]
    ELSE LET r == dispd_encoder_ref(c) IN
    IF r.crashed THEN r
    ELSE IF time = "add_fail"
         THEN LET k == dispd_encoder_kill_child(r) IN
              IF k.crashed THEN k ELSE [k EXCEPT !.rc = -1]
    ELSE LET a == [r EXCEPT !.timers[NewTimer(r)] = "armed",
                            !.e.child_term_time_source = NewTimer(r)]
             k == dispd_encoder_kill_child(a)
         IN IF k.crashed THEN k ELSE [k EXCEPT !.rc = 0]

\* What dispd_encoder_configure reads of the session: the addresses of the
\* sink's peer, the ports of the stream and the display rectangle
\* (<<>>: wfd_session_get_disp_dimension returns NULL, else <<x, y, width, height>>).
Rects == {<<>>} \cup {<<x, y, 2, 1>> : x \in 0..1, y \in 0..1}

Sessions ==
    [remote_address : {"10.0.0.5"}, local_address : {"10.0.0.2"},
     rtp_port : 0..MaxPort, rtcp_port : 0..MaxPort, rect : Rects]

\* the session the main state machine configures with
ScenarioSession ==
    [remote_address |-> "10.0.0.5", local_address |-> "10.0.0.2",
     rtp_port |-> 1, rtcp_port |-> 0, rect |-> <<0, 0, 2, 1>>]

\* one {iv} dictionary entry appended to the call
config_append(call, k, v) == Append(call, [key |-> k, value |-> v])

\* mutant: a zero RTCP port is sent like any other
ConfigureRequest_zero_ports(s) ==
    LET a1 == config_append(<<>>, "PEER_ADDRESS", s.remote_address)
        a2 == config_append(a1, "RTP_PORT0", s.rtp_port)
        a3 == config_append(a2, "PEER_RTCP_PORT", s.rtcp_port)
        a4 == config_append(a3, "LOCAL_ADDRESS", s.local_address)
        a5 == config_append(a4, "LOCAL_RTCP_PORT", s.rtcp_port)
    IN IF s.rect = <<>> THEN a5
       ELSE config_append(
              config_append(
                config_append(
                  config_append(a5, "X", s.rect[1]),
                  "Y", s.rect[2]),
                "WIDTH", s.rect[3]),
              "HEIGHT", s.rect[4])

\* the a{iv} argument dispd_encoder_configure builds, entry by entry
ConfigureRequest(s) ==
    LET a1 == config_append(<<>>, "PEER_ADDRESS", s.remote_address)
        a2 == config_append(a1, "RTP_PORT0", s.rtp_port)
        a3 == IF s.rtcp_port # 0
              THEN config_append(a2, "PEER_RTCP_PORT", s.rtcp_port)
              ELSE a2
        a4 == config_append(a3, "LOCAL_ADDRESS", s.local_address)
        a5 == IF s.rtcp_port # 0
              THEN config_append(a4, "LOCAL_RTCP_PORT", s.rtcp_port)
              ELSE a4
    IN IF s.rect = <<>> THEN a5
       ELSE config_append(
              config_append(
                config_append(
                  config_append(a5, "X", s.rect[1]),
                  "Y", s.rect[2]),
                "WIDTH", s.rect[3]),
              "HEIGHT", s.rect[4])

\* rpc "new_fail": building the message fails and nothing is sent
dispd_encoder_configure(m, rpc, s) ==
    LET t == Access(m) IN
    IF t.crashed THEN t
    ELSE IF ~t.e.bus THEN [t EXCEPT !.rc = -1]
    ELSE IF rpc = "new_fail" THEN [t EXCEPT !.rc = -1]
    ELSE [t EXCEPT !.sent = ConfigureRequest(s),
                   !.rc = IF rpc = "ok" THEN 0 ELSE -1]

dispd_encoder_set_handler(m, handler) ==
    LET t == Access(m) IN
    IF t.crashed THEN t ELSE [t EXCEPT !.e.handler = handler]

dispd_encoder_new(m) ==
    [m EXCEPT !.heap = "live", !.e = [ZeroEncoder EXCEPT !.ref = 1]]

SpawnSteps ==
    {"new_fail", "pipe_fail", "fork_fail", "add_child_fail", "add_io_fail", "ok"}

\* the close_pipe:, kill_encoder: and end: labels, then the scope exit that
\* runs dispd_encoder_unrefp on the local e
SpawnFail(m, closePipe, pid) ==
    LET c == IF closePipe THEN [m EXCEPT !.fds = [rd |-> FALSE, wr |-> FALSE]]
             ELSE m
        k == [c EXCEPT !.kills = Append(@, [pid |-> pid, sig |-> "SIGKILL"])]
    IN [dispd_encoder_unref(k) EXCEPT !.rc = -1]

dispd_encoder_spawn(m, step) ==
    IF step = "new_fail" THEN [m EXCEPT !.rc = -1]
    ELSE LET a == dispd_encoder_new(m) IN
    IF step = "pipe_fail" THEN [dispd_encoder_unref(a) EXCEPT !.rc = -1]
    ELSE LET p == [a EXCEPT !.fds = [rd |-> TRUE, wr |-> TRUE]] IN
    IF step = "fork_fail" THEN SpawnFail(p, FALSE, -1)
    ELSE LET f == [p EXCEPT !.child = "running"]
             r1 == dispd_encoder_ref(f) IN
    IF step = "add_child_fail" THEN SpawnFail(r1, TRUE, WorkerPid)
    ELSE LET c == [r1 EXCEPT !.e.child_source = TRUE, !.loop.child = TRUE]
             r2 == dispd_encoder_ref(c) IN
    IF step = "add_io_fail" THEN SpawnFail(r2, TRUE, WorkerPid)
    ELSE LET i == [r2 EXCEPT !.e.pipe_source = TRUE, !.loop.pipe = TRUE,
                             !.fds.wr = FALSE]
             o == [dispd_encoder_ref(i) EXCEPT !.owners = 1, !.out = TRUE]
         IN [dispd_encoder_unref(o) EXCEPT !.rc = 0]

\* ----- the state machine ---------------------------------------------------

ObsChoices == {"nothing", "release"}

UbChoices == {"stale", "crash"}

KillResults == {0, -1}

Init ==
    /\ e = ZeroEncoder
    /\ heap = "none"
    /\ frees = 0
    /\ loop = [child |-> FALSE, pipe |-> FALSE]
    /\ timers = [i \in TimerIds |-> "none"]
    /\ matches = [state_change |-> FALSE, name_disappeared |-> FALSE]
    /\ owners = 0
    /\ out = FALSE
    /\ fds = [rd |-> FALSE, wr |-> FALSE]
    /\ child = "none"
    /\ regsAtFree = 0
    /\ uaf = FALSE
    /\ crashed = FALSE
    /\ last = [op |-> "init", in |-> NoInput, pre |-> Pre, kills |-> <<>>,
               tries |-> 0, notes |-> <<>>, reqs |-> <<>>, sent |-> <<>>,
               rc |-> 0, uaf |-> FALSE]

\* Every outcome of running the body H on the current state, over the choices
\* of the environment it consults: the observer's only where H calls it,
\* kill()'s result only where H signals, the fate of an access to freed memory
\* only where H makes one.
Runs(H(_)) ==
    LET r0 == H(Cur("nothing", "stale", 0))
        O == IF r0.notes = <<>> THEN {"nothing"} ELSE ObsChoices
        K == IF r0.kills = <<>> THEN {0} ELSE KillResults
    IN UNION { LET r == H(Cur(obs, "stale", kr)) IN
               IF r.uaf THEN {r, H(Cur(obs, "crash", kr))} ELSE {r}
               : obs \in O, kr \in K }

Spawn ==
    /\ ~crashed
    /\ heap = "none"
    /\ \E step \in SpawnSteps :
          \E r \in Runs(LAMBDA m : dispd_encoder_spawn(m, step)) :
             Commit(r, "spawn", [NoInput EXCEPT !.step = step])

\* the worker exits, by itself or on a signal
ChildExit ==
    /\ ~crashed
    /\ child = "running"
    /\ Commit([Cur("nothing", "stale", 0) EXCEPT !.child = "exited"],
              "child_exit", NoInput)

OnChildTerminated ==
    /\ ~crashed
    /\ loop.child
    /\ child = "exited"
    /\ \E r \in Runs(LAMBDA m : on_child_terminated([m EXCEPT !.child = "reaped"])) :
          Commit(r, "on_child_terminated", NoInput)

OnUniqueReadable ==
    /\ ~crashed
    /\ loop.pipe
    /\ \E step \in ReadSteps :
          \E r \in Runs(LAMBDA m : on_unique_readable(m, step)) :
             Commit(r, "on_unique_readable", [NoInput EXCEPT !.step = step])

OnEncoderPropertiesChanged ==
    /\ ~crashed
    /\ matches.state_change
    /\ \E msg \in StateMessages :
          \E r \in Runs(LAMBDA m : on_encoder_properties_changed(m, msg)) :
             Commit(r, "on_encoder_properties_changed",
                    [NoInput EXCEPT !.msg = msg])

OnEncoderDisappeared ==
    /\ ~crashed
    /\ matches.name_disappeared
    /\ \E r \in Runs(on_encoder_disappeared) :
          Commit(r, "on_encoder_disappeared", NoInput)

OnChildTermTimeout ==
    /\ ~crashed
    /\ \E i \in TimerIds :
          /\ timers[i] = "armed"
          /\ \E r \in Runs(LAMBDA m : on_child_term_timeout(m, i)) :
                Commit(r, "on_child_term_timeout", NoInput)

CallerRef ==
    /\ ~crashed
    /\ owners > 0
    /\ owners < MaxOwners
    /\ \E r \in Runs(LAMBDA m : [dispd_encoder_ref(m) EXCEPT !.owners = @ + 1]) :
          Commit(r, "ref", NoInput)

CallerUnref ==
    /\ ~crashed
    /\ owners > 0
    /\ \E r \in Runs(LAMBDA m : dispd_encoder_unref([m EXCEPT !.owners = @ - 1])) :
          Commit(r, "unref", NoInput)

SetHandler ==
    /\ ~crashed
    /\ owners > 0
    /\ \E handler \in BOOLEAN :
          \E r \in Runs(LAMBDA m : dispd_encoder_set_handler(m, handler)) :
             Commit(r, "set_handler", NoInput)

Configure ==
    /\ ~crashed
    /\ owners > 0
    /\ \E rpc \in RpcSteps :
          \E r \in Runs(LAMBDA m : dispd_encoder_configure(m, rpc, ScenarioSession)) :
             Commit(r, "configure",
                    [NoInput EXCEPT !.rpc = rpc, !.session = ScenarioSession])

Start ==
    /\ ~crashed
    /\ owners > 0
    /\ \E rpc \in RpcSteps :
          \E r \in Runs(LAMBDA m : dispd_encoder_start(m, rpc)) :
             Commit(r, "start", [NoInput EXCEPT !.rpc = rpc])

Pause ==
    /\ ~crashed
    /\ owners > 0
    /\ \E rpc \in RpcSteps :
          \E r \in Runs(LAMBDA m : dispd_encoder_pause(m, rpc)) :
             Commit(r, "pause", [NoInput EXCEPT !.rpc = rpc])

Stop ==
    /\ ~crashed
    /\ owners > 0
    /\ e.ref < MaxRef
    /\ \E rpc \in RpcSteps, time \in TimeSteps :
          /\ time = "ok" => \E i \in TimerIds : timers[i] = "none"
          /\ \E r \in Runs(LAMBDA m : dispd_encoder_stop(m, rpc, time)) :
                Commit(r, "stop", [NoInput EXCEPT !.rpc = rpc, !.time = time])

Next ==
    \/ Spawn
    \/ ChildExit
    \/ OnChildTerminated
    \/ OnUniqueReadable
    \/ OnEncoderPropertiesChanged
    \/ OnEncoderDisappeared
    \/ OnChildTermTimeout
    \/ CallerRef
    \/ CallerUnref
    \/ SetHandler
    \/ Configure
    \/ Start
    \/ Pause
    \/ Stop

Spec == Init /\ [][Next]_vars

\* ----- notifications with any dictionary -----------------------------------
\* The controller right after a successful spawn and a successful handshake,
\* then the calls of its owner and state-change notifications carrying every
\* dictionary of up to MaxEntries entries.

Fresh ==
    [e |-> ZeroEncoder, heap |-> "none", frees |-> 0,
     loop |-> [child |-> FALSE, pipe |-> FALSE],
     timers |-> [i \in TimerIds |-> "none"],
     matches |-> [state_change |-> FALSE, name_disappeared |-> FALSE],
     owners |-> 0, out |-> FALSE, fds |-> [rd |-> FALSE, wr |-> FALSE],
     child |-> "none",
     regsAtFree |-> 0, uaf |-> FALSE, crashed |-> FALSE,
     obs |-> "nothing", ub |-> "stale", kr |-> 0,
     kills |-> <<>>, tries |-> 0, notes |-> <<>>, reqs |-> <<>>, sent |-> <<>>,
     rc |-> 0]

Handshaken == on_unique_readable(dispd_encoder_spawn(Fresh, "ok"), "ok")

InitNotify ==
    /\ e = Handshaken.e
    /\ heap = Handshaken.heap
    /\ frees = Handshaken.frees
    /\ loop = Handshaken.loop
    /\ timers = Handshaken.timers
    /\ matches = Handshaken.matches
    /\ owners = Handshaken.owners
    /\ out = Handshaken.out
    /\ fds = Handshaken.fds
    /\ child = Handshaken.child
    /\ regsAtFree = Handshaken.regsAtFree
    /\ uaf = Handshaken.uaf
    /\ crashed = Handshaken.crashed
    /\ last = [op |-> "on_unique_readable", in |-> [NoInput EXCEPT !.step = "ok"],
               pre |-> Pre, kills |-> <<>>, tries |-> 0, notes |-> <<>>,
               reqs |-> Handshaken.reqs, sent |-> <<>>, rc |-> 0,
               uaf |-> FALSE]

OnAnyPropertiesChanged ==
    /\ ~crashed
    /\ matches.state_change
    /\ \E msg \in Messages :
          \E r \in Runs(LAMBDA m : on_encoder_properties_changed(m, msg)) :
             Commit(r, "on_encoder_properties_changed",
                    [NoInput EXCEPT !.msg = msg])

NextNotify ==
    \/ OnAnyPropertiesChanged
    \/ SetHandler
    \/ CallerRef
    \/ CallerUnref

SpecNotify == InitNotify /\ [][NextNotify]_vars

\* ----- configure() with any session ----------------------------------------
\* The controller right after a successful spawn and handshake, then the calls
\* of its owner, configure() being given every session of Sessions.

ConfigureAny ==
    /\ ~crashed
    /\ owners > 0
    /\ \E rpc \in RpcSteps, s \in Sessions :
          \E r \in Runs(LAMBDA m : dispd_encoder_configure(m, rpc, s)) :
             Commit(r, "configure", [NoInput EXCEPT !.rpc = rpc, !.session = s])

NextConfigure ==
    \/ ConfigureAny
    \/ SetHandler
    \/ CallerRef
    \/ CallerUnref

SpecConfigure == InitNotify /\ [][NextConfigure]_vars

\* ----- properties ----------------------------------------------------------

\* C1: once the state is TERMINATED it never changes again and the observer
\* is never invoked again.
C1_TerminatedIsTerminal ==
    [][e.state = "TERMINATED"
          => (e'.state = "TERMINATED" /\ last'.notes = <<>>)]_vars

\* C2: between callbacks the reference count equals the references callers
\* hold plus the number of registered sources and slots.
C2_ReferenceBalance ==
    heap = "live" => e.ref = owners + RegCount(Regs)

\* C3: the controller is freed at most once, and when it is freed no source or
\* slot carrying it is still registered.
C3_FreedOnceUnregistered ==
    /\ frees <= 1
    /\ regsAtFree = 0
    /\ heap = "freed" => RegCount(Regs) = 0

C3_Witness ==
    /\ heap = "freed"
    /\ frees = 1
    /\ e.bus
    /\ e.state = "TERMINATED"

\* C4: a handler whose transition invoked an observer that released a
\* reference of the caller accesses no field of the controller after the
\* controller has been freed.
C4_NoUseAfterFree ==
    (last.notes # <<>> /\ owners < last.pre.owners) => ~last.uaf

\* C5: at most one termination timer is outstanding at any time.
C5_AtMostOneTimer ==
    Cardinality({i \in TimerIds : timers[i] = "armed"}) <= 1

\* C6 as stated: every stop() made while the child-exit watcher is active
\* signals the worker at least once before it returns.
C6_StopAlwaysSignals ==
    (last.op = "stop" /\ last.pre.child_source) => Len(last.kills) >= 1

\* C6 as amended: every stop() made while the child-exit watcher is active and
\* the bus connection is open sends SIGTERM to the worker at least once before
\* it returns, whatever the Stop call and the arming of the timer do.
C6_StopSignalsOnceBusIsOpen ==
    (last.op = "stop" /\ last.pre.child_source /\ last.pre.bus)
        => /\ Len(last.kills) >= 1
           /\ \A i \in 1..Len(last.kills) :
                 last.kills[i] = [pid |-> WorkerPid, sig |-> "SIGTERM"]

C6_Witness ==
    /\ last.op = "stop"
    /\ last.pre.child_source
    /\ last.in.rpc = "ok"
    /\ last.in.time = "add_fail"
    /\ Len(last.kills) = 1

\* C7 as stated: once the Stop call has been answered, stop() has registered a
\* grace timer when it returns, whether the call succeeded or failed.
C7_TimerArmedRegardless ==
    (/\ last.op = "stop"
     /\ last.pre.bus
     /\ last.in.rpc \in {"ok", "call_fail"}
     /\ last.in.time = "ok")
        => Regs.timers = last.pre.regs.timers + 1

\* C7 as amended: stop() registers a grace timer exactly when the Stop call
\* succeeded and reading the clock and adding the timer succeeded; the timer
\* is then armed and held in child_term_time_source.  When the Stop call
\* failed, stop() returns the error and registers no timer.
C7_TimerArmedOnlyOnSuccess ==
    last.op = "stop"
        => IF last.pre.bus /\ last.in.rpc = "ok" /\ last.in.time = "ok"
           THEN /\ Regs.timers = last.pre.regs.timers + 1
                /\ e.child_term_time_source # 0
                /\ timers[e.child_term_time_source] = "armed"
                /\ last.rc = 0
           ELSE /\ Regs.timers = last.pre.regs.timers
                /\ last.rc < 0

C7_Witness ==
    /\ last.op = "stop"
    /\ last.pre.bus
    /\ last.in.rpc = "call_fail"
    /\ last.in.time = "ok"
    /\ Regs.timers = 0
    /\ last.rc < 0

\* the first entry of a dictionary named State, 0 if there is none
FirstStateEntry(msg) ==
    IF \E i \in 1..Len(msg) : msg[i].name = "State"
    THEN CHOOSE i \in 1..Len(msg) :
            /\ msg[i].name = "State"
            /\ \A j \in 1..(i - 1) : msg[j].name # "State"
    ELSE 0

\* the mapping the claim states, by code + 1
ClaimedStates ==
    <<"NULL", "CONFIGURED", "READY", "STARTED", "PAUSED", "TERMINATED">>

\* C8: a notification whose State entry carries a code outside 0..5 leaves the
\* state unchanged and does not invoke the observer; a code in 0..5 makes the
\* state the mapped value; only the first State entry is applied.
C8_NotificationMapping ==
    (last.op = "on_encoder_properties_changed"
        /\ FirstStateEntry(last.in.msg) # 0)
        => LET code == last.in.msg[FirstStateEntry(last.in.msg)].value IN
           IF code \in 0..5
           THEN e.state = ClaimedStates[code + 1]
           ELSE e.state = last.pre.state /\ last.notes = <<>>

\* C9: a request for the current state changes nothing and invokes no
\* observer; a request for another state invokes the registered observer
\* exactly once, within the handler, with the new state, the controller's
\* state being that state already.
C9_ObserverExact ==
    /\ Len(last.reqs) <= 1
    /\ last.reqs = <<>> => (last.notes = <<>> /\ (crashed \/ e.state = last.pre.state))
    /\ last.reqs # <<>> =>
          LET req == last.reqs[1] IN
          /\ req.from = last.pre.state
          /\ IF req.from = req.to
             THEN last.notes = <<>> /\ e.state = last.pre.state
             ELSE /\ e.state = req.to
                  /\ last.notes = IF last.pre.handler
                                  THEN <<[arg |-> req.to, seen |-> req.to]>>
                                  ELSE <<>>

C9_Witness ==
    /\ Len(last.reqs) = 1
    /\ last.reqs[1].from # last.reqs[1].to
    /\ last.pre.handler
    /\ Len(last.notes) = 1

\* C10: a disappearance notification that arrives while the child-exit watcher
\* is active signals the worker, removes no source or slot and drops no
\* reference; the child-exit watcher, the timer and the two slots are removed
\* by the child-exit callback alone.
C10_DisappearanceDefersTeardown ==
    /\ (last.op = "on_encoder_disappeared" /\ last.pre.child_source)
          => /\ last.kills = <<[pid |-> WorkerPid, sig |-> "SIGTERM"]>>
             /\ Regs = last.pre.regs
             /\ e.ref = last.pre.ref
             /\ heap = "live"
    /\ (\/ last.pre.regs.child /\ ~Regs.child
        \/ last.pre.regs.state_change /\ ~Regs.state_change
        \/ last.pre.regs.name_disappeared /\ ~Regs.name_disappeared
        \/ last.pre.regs.timers > Regs.timers)
          => last.op = "on_child_terminated"

C10_Witness ==
    /\ last.op = "on_encoder_disappeared"
    /\ last.pre.child_source
    /\ Len(last.kills) = 1
    /\ Regs.name_disappeared
    /\ Regs.timers = 1

\* C11: a zero-length read in the handshake signals the worker, removes the
\* pipe watcher and drops its reference, leaves the peer address unset, opens
\* no bus connection, installs no subscription and leaves the state NULL
\* without invoking the observer.
C11_EmptyHandshakeFails ==
    (last.op = "on_unique_readable" /\ last.in.step = "eof")
        => /\ last.kills = <<[pid |-> WorkerPid, sig |-> "SIGTERM"]>>
           /\ ~loop.pipe
           /\ ~e.pipe_source
           /\ ~fds.rd
           /\ e.ref = last.pre.ref - 1
           /\ ~e.name
           /\ ~e.bus
           /\ ~matches.state_change
           /\ ~matches.name_disappeared
           /\ last.pre.state = "NULL"
           /\ e.state = "NULL"
           /\ last.notes = <<>>

C11_Witness ==
    /\ last.op = "on_unique_readable"
    /\ last.in.step = "eof"
    /\ last.pre.regs.pipe
    /\ Len(last.kills) = 1
    /\ child = "running"

\* C12: when the handshake callback has set the state to SPAWNED both
\* subscriptions are registered; if installing either fails the state does
\* not become SPAWNED.
C12_SpawnedNeedsBothSubscriptions ==
    (last.op = "on_unique_readable" /\ e.state = "SPAWNED")
        => /\ matches.state_change
           /\ matches.name_disappeared
           /\ last.in.step = "ok"

\* C13: a failed Start, Pause or Stop call returns an error after
\* dispd_encoder_kill_child has been called, which sends SIGTERM to the worker
\* whose exit is still watched; a failed Configure returns an error, sends no
\* signal and removes no source or slot.
C13_RpcFailureHandling ==
    /\ (/\ last.op \in {"start", "pause", "stop"}
        /\ last.pre.bus
        /\ last.in.rpc \in {"new_fail", "call_fail"})
          => /\ last.rc < 0
             /\ last.tries >= 1
             /\ last.pre.child_source
                   => last.kills = <<[pid |-> WorkerPid, sig |-> "SIGTERM"]>>
    /\ (last.op = "configure" /\ last.in.rpc # "ok")
          => /\ last.rc < 0
             /\ last.tries = 0
             /\ last.kills = <<>>
             /\ Regs = last.pre.regs
             /\ e.ref = last.pre.ref

C13_Witness ==
    /\ last.op = "start"
    /\ last.in.rpc = "call_fail"
    /\ last.pre.child_source
    /\ Len(last.kills) = 1
    /\ last.rc < 0

\* C14: a notification with code 5 that arrives while the grace timer is armed
\* sets the state to TERMINATED and retires the timer, so that it never fires.
C14_TerminatedRetiresTimer ==
    (/\ last.op = "on_encoder_properties_changed"
     /\ last.reqs # <<>>
     /\ last.reqs[Len(last.reqs)].to = "TERMINATED")
        => /\ e.state = "TERMINATED"
           /\ \A i \in TimerIds : timers[i] # "armed"

\* C15: a failed spawn returns with both pipe ends closed, no source
\* registered and the controller freed.
C15_SpawnFailureTearsDown ==
    (last.op = "spawn" /\ last.rc < 0)
        => /\ ~fds.rd
           /\ ~fds.wr
           /\ RegCount(Regs) = 0
           /\ heap # "live"

\* C17: when the child-exit callback has returned the state is TERMINATED and
\* no child watcher, pipe watcher, timer or slot of the controller is
\* registered.
C17_ChildExitTearsDownAll ==
    (last.op = "on_child_terminated" /\ ~crashed)
        => /\ e.state = "TERMINATED"
           /\ RegCount(Regs) = 0

\* C18: after a successful spawn, once the child-exit event has been processed
\* and the caller has released its references, the controller is freed.
C18_NoReferenceLeak ==
    (out /\ child = "reaped" /\ owners = 0 /\ ~crashed) => heap = "freed"

\* C19: once the child-exit event has been processed no signal is sent any
\* more: the child-exit watcher is gone and dispd_encoder_kill_child finds no
\* child.
C19_NoSignalAfterChildExit ==
    child = "reaped" => (last.kills = <<>> /\ ~e.child_source /\ ~loop.child)

C19_Witness ==
    /\ child = "reaped"
    /\ last.op = "on_child_term_timeout"
    /\ last.tries = 1
    /\ last.kills = <<>>

\* C20: spawn sends its SIGKILL to the pid of a worker fork created, and to no
\* other process, on every path.
C20_KillOnlyForkedChild ==
    last.op = "spawn"
        => \A i \in 1..Len(last.kills) :
              last.kills[i].pid = WorkerPid /\ child # "none"

\* the order of the keys the claim states
ClaimedKeys ==
    <<"PEER_ADDRESS", "RTP_PORT0", "PEER_RTCP_PORT", "LOCAL_ADDRESS",
      "LOCAL_RTCP_PORT", "X", "Y", "WIDTH", "HEIGHT">>

KeyPresent(k, s) ==
    CASE k \in {"PEER_RTCP_PORT", "LOCAL_RTCP_PORT"} -> s.rtcp_port # 0
      [] k \in {"X", "Y", "WIDTH", "HEIGHT"} -> s.rect # <<>>
      [] OTHER -> TRUE

\* C16: the request configure() sends lists peer address, RTP port, peer RTCP
\* port, local address, local RTCP port, x, y, width, height in this order;
\* the two RTCP entries are present exactly when the RTCP port is not zero,
\* the four rectangle entries exactly when the session has a rectangle, the
\* other three always.
C16_ConfigureRequest ==
    (last.op = "configure" /\ last.pre.bus /\ last.in.rpc # "new_fail")
        => LET s == last.in.session
               want == SelectSeq(ClaimedKeys, LAMBDA k : KeyPresent(k, s))
           IN /\ Len(last.sent) = Len(want)
              /\ \A i \in 1..Len(want) : last.sent[i].key = want[i]
              /\ \A i \in 1..Len(last.sent) :
                    /\ last.sent[i].key = "RTP_PORT0"
                          => last.sent[i].value = s.rtp_port
                    /\ last.sent[i].key \in {"PEER_RTCP_PORT", "LOCAL_RTCP_PORT"}
                          => last.sent[i].value = s.rtcp_port

C16_Witness ==
    /\ last.op = "configure"
    /\ last.in.rpc = "ok"
    /\ last.in.session.rtcp_port = 0
    /\ last.in.session.rtp_port = 0
    /\ last.in.session.rect # <<>>
    /\ Len(last.sent) = 7

====
